---- MODULE Spec2Model ----
(***************************************************************************)
(* Model of flask_textract_api.py: the POST /extract handler, the          *)
(* extension classifier allowed_file, the filename sanitizer it calls,     *)
(* and the GET /formats catalog.                                           *)
(*                                                                         *)
(* Strings are sequences of one-character strings, so that rsplit, lower,  *)
(* strip and the sanitizer are computed character by character.  Bytes are *)
(* sequences of byte symbols.                                              *)
(***************************************************************************)
EXTENDS Integers, Sequences, FiniteSets, TLC

VARIABLES
    os_name,     \* os.name of the build: "posix" or "nt"
    fs,          \* the ./temp directory: path -> bytes stored in the file
    pc,          \* per request: position of the handler
    req,         \* per request: the multipart upload received
    loc,         \* per request: the handler's local variables
    resp,        \* per request: the (body, status code) returned
    trace,       \* per request: what the invocation did to ./temp (observation)
    cfile,       \* classifier harness: filename under test
    cstage,      \* classifier harness: position
    cres,        \* classifier harness: results computed so far
    catalog      \* last body returned by GET /formats

vars == <<os_name, fs, pc, req, loc, resp, trace, cfile, cstage, cres, catalog>>

hvars == <<fs, pc, req, loc, resp, trace>>

cvars == <<cfile, cstage, cres, catalog>>

(***************************************************************************)
(* Bounds                                                                  *)
(***************************************************************************)
MaxStemLen == 2

MaxLeaked == 1

(***************************************************************************)
(* Strings                                                                 *)
(***************************************************************************)
Range(s) == {s[i] : i \in 1..Len(s)}

SeqsUpTo(S, n) == UNION {[1..k -> S] : k \in 0..n}

Upper == {"A","B","C","D","E","F","G","H","I","J","K","L","M",
          "N","O","P","Q","R","S","T","U","V","W","X","Y","Z"}

Lowercase == {"a","b","c","d","e","f","g","h","i","j","k","l","m",
          "n","o","p","q","r","s","t","u","v","w","x","y","z"}

Digits == {"0","1","2","3","4","5","6","7","8","9"}

\* str.lower() on one character
LowerChar(c) ==
    CASE c = "A" -> "a" [] c = "B" -> "b" [] c = "C" -> "c" [] c = "D" -> "d"
      [] c = "E" -> "e" [] c = "F" -> "f" [] c = "G" -> "g" [] c = "H" -> "h"
      [] c = "I" -> "i" [] c = "J" -> "j" [] c = "K" -> "k" [] c = "L" -> "l"
      [] c = "M" -> "m" [] c = "N" -> "n" [] c = "O" -> "o" [] c = "P" -> "p"
      [] c = "Q" -> "q" [] c = "R" -> "r" [] c = "S" -> "s" [] c = "T" -> "t"
      [] c = "U" -> "u" [] c = "V" -> "v" [] c = "W" -> "w" [] c = "X" -> "x"
      [] c = "Y" -> "y" [] c = "Z" -> "z" [] OTHER -> c

\* str.upper() on one character
UpperChar(c) ==
    CASE c = "a" -> "A" [] c = "b" -> "B" [] c = "c" -> "C" [] c = "d" -> "D"
      [] c = "e" -> "E" [] c = "f" -> "F" [] c = "g" -> "G" [] c = "h" -> "H"
      [] c = "i" -> "I" [] c = "j" -> "J" [] c = "k" -> "K" [] c = "l" -> "L"
      [] c = "m" -> "M" [] c = "n" -> "N" [] c = "o" -> "O" [] c = "p" -> "P"
      [] c = "q" -> "Q" [] c = "r" -> "R" [] c = "s" -> "S" [] c = "t" -> "T"
      [] c = "u" -> "U" [] c = "v" -> "V" [] c = "w" -> "W" [] c = "x" -> "X"
      [] c = "y" -> "Y" [] c = "z" -> "Z" [] OTHER -> c

lower(s) == [i \in 1..Len(s) |-> LowerChar(s[i])]

upper(s) == [i \in 1..Len(s) |-> UpperChar(s[i])]

\* index of the last '.' of s, 0 when there is none
LastDot(s) ==
    IF "." \in Range(s)
    THEN CHOOSE i \in 1..Len(s) : s[i] = "." /\ \A j \in (i+1)..Len(s) : s[j] # "."
    ELSE 0

\* index of the first '.' of s, Len(s)+1 when there is none
FirstDot(s) ==
    IF "." \in Range(s)
    THEN CHOOSE i \in 1..Len(s) : s[i] = "." /\ \A j \in 1..(i-1) : s[j] # "."
    ELSE Len(s) + 1

\* s.rsplit('.', 1): one part when s has no '.', else the parts around the last '.'
rsplit(s) ==
    IF LastDot(s) = 0
    THEN <<s>>
    ELSE <<SubSeq(s, 1, LastDot(s) - 1), SubSeq(s, LastDot(s) + 1, Len(s))>>

(***************************************************************************)
(* Extension classifier                                                    *)
(***************************************************************************)
ALLOWED_EXTENSIONS ==
    { <<"p","d","f">>, <<"d","o","c","x">>, <<"d","o","c">>, <<"t","x","t">>,
      <<"r","t","f">>, <<"o","d","t">>,
      <<"j","p","e","g">>, <<"j","p","g">>, <<"p","n","g">>, <<"t","i","f","f">>,
      <<"t","i","f">>, <<"g","i","f">>,
      <<"p","p","t","x">>, <<"x","l","s","x">>, <<"x","l","s">>, <<"c","s","v">>,
      <<"e","m","l">>, <<"e","p","u","b">>, <<"h","t","m","l">>, <<"h","t","m">> }

\* a classifier that splits at the first '.' (split instead of rsplit)
allowed_file_first_segment(filename) ==
    /\ "." \in Range(filename)
    /\ LET rest == SubSeq(filename, FirstDot(filename) + 1, Len(filename))
       IN  lower(SubSeq(rest, 1, FirstDot(rest) - 1)) \in ALLOWED_EXTENSIONS

allowed_file(filename) ==
    /\ "." \in Range(filename)
    /\ lower(rsplit(filename)[2]) \in ALLOWED_EXTENSIONS

(***************************************************************************)
(* GET /formats                                                            *)
(***************************************************************************)
\* a catalog that lost 'htm' from the web family
format_details_drifted ==
    [ documents     |-> << <<"p","d","f">>, <<"d","o","c","x">>, <<"d","o","c">>,
                           <<"t","x","t">>, <<"r","t","f">>, <<"o","d","t">> >>,
      presentations |-> << <<"p","p","t","x">> >>,
      spreadsheets  |-> << <<"x","l","s","x">>, <<"x","l","s">>, <<"c","s","v">> >>,
      images        |-> << <<"j","p","e","g">>, <<"j","p","g">>, <<"p","n","g">>,
                           <<"t","i","f","f">>, <<"t","i","f">>, <<"g","i","f">> >>,
      web           |-> << <<"h","t","m","l">> >>,
      email         |-> << <<"e","m","l">> >>,
      ebooks        |-> << <<"e","p","u","b">> >> ]

format_details ==
    [ documents     |-> << <<"p","d","f">>, <<"d","o","c","x">>, <<"d","o","c">>,
                           <<"t","x","t">>, <<"r","t","f">>, <<"o","d","t">> >>,
      presentations |-> << <<"p","p","t","x">> >>,
      spreadsheets  |-> << <<"x","l","s","x">>, <<"x","l","s">>, <<"c","s","v">> >>,
      images        |-> << <<"j","p","e","g">>, <<"j","p","g">>, <<"p","n","g">>,
                           <<"t","i","f","f">>, <<"t","i","f">>, <<"g","i","f">> >>,
      web           |-> << <<"h","t","m","l">>, <<"h","t","m">> >>,
      email         |-> << <<"e","m","l">> >>,
      ebooks        |-> << <<"e","p","u","b">> >> ]

\* the JSON body of GET /formats
supported_formats ==
    [ supported_formats |-> format_details,
      total_formats     |-> Cardinality(ALLOWED_EXTENSIONS),
      max_file_size     |-> "16MB",
      note              |-> "Some formats may require additional system dependencies" ]

(***************************************************************************)
(* werkzeug.utils.secure_filename, as called at line 134                   *)
(***************************************************************************)
Whitespace == {" ", "\t"}

\* characters kept by _filename_ascii_strip_re = [^A-Za-z0-9_.-]
AsciiKept == Upper \cup Lowercase \cup Digits \cup {"_", ".", "-"}

\* NFKD normalisation followed by encode("ascii", "ignore") on one character:
\* an accented letter keeps its base letter, a character with no ASCII
\* decomposition disappears, ASCII is unchanged
AsciiFold(c) ==
    CASE c = "é"  -> <<"e">>
      [] c = "日" -> <<>>
      [] OTHER    -> <<c>>

RECURSIVE AsciiFoldAll(_)
AsciiFoldAll(s) ==
    IF s = <<>> THEN <<>> ELSE AsciiFold(Head(s)) \o AsciiFoldAll(Tail(s))

\* os.sep and os.path.altsep of the build
PathSeps(os) == IF os = "nt" THEN {"\\", "/"} ELSE {"/"}

ReplaceSeps(s, os) == [i \in 1..Len(s) |-> IF s[i] \in PathSeps(os) THEN " " ELSE s[i]]

\* "_".join(s.split()): runs of whitespace become one '_', none at the ends
RECURSIVE JoinSplit(_, _)
JoinSplit(s, started) ==
    IF s = <<>> THEN <<>>
    ELSE IF Head(s) \in Whitespace
         THEN IF started /\ \E i \in 1..Len(s) : s[i] \notin Whitespace
                 /\ (Len(s) = 1 \/ s[2] \notin Whitespace)
              THEN <<"_">> \o JoinSplit(Tail(s), started)
              ELSE JoinSplit(Tail(s), started)
         ELSE <<Head(s)>> \o JoinSplit(Tail(s), TRUE)

AsciiStrip(s) == SelectSeq(s, LAMBDA c : c \in AsciiKept)

RECURSIVE LStrip(_, _)
LStrip(s, chars) ==
    IF s # <<>> /\ Head(s) \in chars THEN LStrip(Tail(s), chars) ELSE s

RECURSIVE RStrip(_, _)
RStrip(s, chars) ==
    IF s # <<>> /\ s[Len(s)] \in chars THEN RStrip(SubSeq(s, 1, Len(s) - 1), chars) ELSE s

\* str.strip(chars)
strip(s, chars) == RStrip(LStrip(s, chars), chars)

\* _windows_device_files (the ones the filename alphabet can spell)
WindowsDeviceFiles == { <<"C","O","N">>, <<"N","U","L">>, <<"A","U","X">>, <<"P","R","N">> }

\* a sanitizer that drops every '.' along with the other unsafe characters
secure_filename_no_dots(filename, os) ==
    SelectSeq(AsciiStrip(JoinSplit(ReplaceSeps(AsciiFoldAll(filename), os), FALSE)),
              LAMBDA c : c # ".")

secure_filename(filename, os) ==
    LET folded  == AsciiFoldAll(filename)
        spaced  == ReplaceSeps(folded, os)
        cleaned == strip(AsciiStrip(JoinSplit(spaced, FALSE)), {".", "_"})
    IN  IF os = "nt" /\ cleaned # <<>>
           /\ upper(SubSeq(cleaned, 1, FirstDot(cleaned) - 1)) \in WindowsDeviceFiles
        THEN <<"_">> \o cleaned
        ELSE cleaned

\* lines 150-151: ext = filename.rsplit('.', 1)[-1].lower(); extension = f'.{ext}'
temp_extension(filename) ==
    <<".">> \o lower(rsplit(filename)[Len(rsplit(filename))])

(***************************************************************************)
(* Uploads, bytes and the extractor's output                               *)
(***************************************************************************)
Requests == {"r1", "r2"}

\* filenames sent to POST /extract: '', 'a', 'a.zip', 'r.pdf.zip', 'my r.PDF'
HandlerFilenames ==
    { <<>>, <<"a">>, <<"a",".","z","i","p">>,
      <<"r",".","p","d","f",".","z","i","p">>,
      <<"m","y"," ","r",".","P","D","F">> }

\* uploaded contents: nothing, ' ' + the two bytes of U+00E9, 'h' + a byte that
\* cannot start a UTF-8 sequence
Contents ==
    { <<>>, <<" ","xC3","xA9">>, <<"h","xFF">> }

Uploads ==
    { [has_file |-> FALSE, filename |-> <<>>, content |-> <<>>] }
    \cup { [has_file |-> TRUE, filename |-> f, content |-> c] :
             f \in HandlerFilenames, c \in Contents }

AsciiBytes == {"h", "i", " "}

\* bytes.decode('utf-8') succeeds
RECURSIVE Utf8Valid(_)
Utf8Valid(b) ==
    IF b = <<>> THEN TRUE
    ELSE IF Head(b) \in AsciiBytes THEN Utf8Valid(Tail(b))
    ELSE IF Head(b) = "xC3" /\ Len(b) >= 2 /\ b[2] = "xA9" THEN Utf8Valid(Tail(Tail(b)))
    ELSE FALSE

\* bytes.decode('utf-8'): one character per ASCII byte, 'é' for C3 A9
RECURSIVE Utf8Decode(_)
Utf8Decode(b) ==
    IF b = <<>> THEN <<>>
    ELSE IF Head(b) = "xC3" THEN <<"é">> \o Utf8Decode(Tail(Tail(b)))
    ELSE <<Head(b)>> \o Utf8Decode(Tail(b))

\* mimetypes.guess_type(filename)[0]: decided by the extension, case-insensitively;
\* None when the name has no extension
guess_type(filename) ==
    IF LastDot(filename) = 0
    THEN <<"None">>
    ELSE <<"type-of">> \o lower(rsplit(filename)[2])

\* round(file_size / (1024 * 1024), 2), in hundredths of a megabyte (round half even)
size_mb(file_size) ==
    LET q == (file_size * 100) \div 1048576
        m == (file_size * 100) % 1048576
    IN  IF 2 * m > 1048576 \/ (2 * m = 1048576 /\ q % 2 = 1) THEN q + 1 ELSE q

\* lines 138-144
file_info(filename, file_bytes) ==
    [ size      |-> Len(file_bytes),
      mime_type |-> guess_type(filename),
      size_mb   |-> size_mb(Len(file_bytes)) ]

(***************************************************************************)
(* Exceptions and their str()                                              *)
(***************************************************************************)
NoPath == <<0, <<>>>>

Lit(t)  == [kind |-> "lit",  text |-> t, path |-> NoPath]

\* text of an operating-system error
OsErr(t) == [kind |-> "oserr", text |-> t, path |-> NoPath]

\* text produced inside the extractor or the decoder
Diag(t) == [kind |-> "diag", text |-> t, path |-> NoPath]

PathTok(p) == [kind |-> "path", text |-> "./temp/tmp", path |-> p]

NoExc == [type |-> "none", str |-> <<>>]

\* file.read() or secure_filename failing before the inner try
ReadFault == [type |-> "OSError", str |-> <<OsErr("read failed")>>]

\* tempfile.NamedTemporaryFile failing: str() of the OSError names the path tried
CreateFault(p) ==
    [type |-> "FileNotFoundError",
     str  |-> <<OsErr("[Errno 2] No such file or directory: "), PathTok(p)>>]

WriteFault == [type |-> "OSError", str |-> <<OsErr("[Errno 28] No space left on device")>>]

\* textract.process raising; its message may quote the command line it ran
ExtractorFaults(p) ==
    { [type |-> "ShellError", str |-> <<Diag("The command failed: "), PathTok(p)>>],
      [type |-> "BadZipFile", str |-> <<Diag("File is not a zip file")>>] }

MissingFile(p) ==
    [type |-> "MissingFileError", str |-> <<Diag("The file can not be found: "), PathTok(p)>>]

\* os.unlink failing: str() of the OSError names the path
UnlinkFault(p) ==
    [type |-> "PermissionError", str |-> <<OsErr("[Errno 13] Permission denied: "), PathTok(p)>>]

UnicodeDecodeError ==
    [type |-> "UnicodeDecodeError", str |-> <<Diag("'utf-8' codec can't decode byte")>>]

(***************************************************************************)
(* Responses                                                               *)
(***************************************************************************)
NoResponse == [http |-> 0]

\* lines 108-112
NoFileProvided ==
    [ http |-> 400, status |-> "error", error |-> "No file provided",
      message |-> <<Lit("Please upload a file using the \"file\" field")>> ]

\* lines 118-122
NoFileSelected ==
    [ http |-> 400, status |-> "error", error |-> "No file selected",
      message |-> <<Lit("Please select a file to upload")>> ]

\* lines 126-131
UnsupportedFormat(filename) ==
    [ http |-> 400, status |-> "error", error |-> "Unsupported file format",
      message |-> <<Lit("Supported formats: "), Lit("ALLOWED_EXTENSIONS")>>,
      filename |-> filename ]

\* lines 179-186
ExtractionFailed(filename, exc) ==
    [ http |-> 500, status |-> "error", error |-> "Text extraction failed",
      message |-> <<Lit("Could not extract text from file: ")>> \o exc.str,
      filename |-> filename ]

\* lines 188-194
UnexpectedError(exc) ==
    [ http |-> 500, status |-> "error", error |-> "Unexpected error",
      message |-> exc.str ]

\* lines 166-177
Success(filename, text, info) ==
    [ http |-> 200, status |-> "success", filename |-> filename,
      extracted_text |-> strip(text, Whitespace),
      text_length |-> Len(strip(text, Whitespace)),
      file_info |-> info,
      message |-> <<Lit("Text extraction completed successfully")>> ]

\* a decode that replaces undecodable bytes instead of raising
ExtractionOutcome_lossy_decode(l) ==
    IF l.exc # NoExc
    THEN ExtractionFailed(l.filename, l.exc)
    ELSE Success(l.filename,
                 IF l.extracted.is_bytes
                 THEN Utf8Decode(SelectSeq(l.extracted.data,
                                 LAMBDA b : b \in AsciiBytes))
                 ELSE l.extracted.data,
                 l.file_info)

\* lines 161-186 once the finally block has run: the pending exception, or a
\* decoding error, goes to the inner except; otherwise the success body
ExtractionOutcome(l) ==
    IF l.exc # NoExc
    THEN ExtractionFailed(l.filename, l.exc)
    ELSE IF l.extracted.is_bytes /\ ~Utf8Valid(l.extracted.data)
    THEN ExtractionFailed(l.filename, UnicodeDecodeError)
    ELSE Success(l.filename,
                 IF l.extracted.is_bytes THEN Utf8Decode(l.extracted.data)
                 ELSE l.extracted.data,
                 l.file_info)

(***************************************************************************)
(* The ./temp directory                                                    *)
(***************************************************************************)
\* random parts of temporary names: one per request that can hold a file and
\* one per file an earlier request may have left behind
TempIds == 1..(Cardinality(Requests) + MaxLeaked)

\* a naming scheme that derives the name from the upload alone
FreshPaths_fixed_name(dir, suffix) == { <<1, suffix>> }

\* tempfile.NamedTemporaryFile(dir="./temp", delete=False, suffix=extension):
\* the names it can return are those not present in the directory (O_EXCL)
FreshPaths(dir, suffix) == { <<n, suffix>> : n \in TempIds } \ DOMAIN dir

NoLocals ==
    [ filename |-> <<>>, file_bytes |-> <<>>, file_info |-> file_info(<<>>, <<>>),
      extension |-> <<>>, temp |-> NoPath,
      extracted |-> [is_bytes |-> TRUE, data |-> <<>>], exc |-> NoExc ]

NoTrace ==
    [ passed_check |-> FALSE, created |-> 0, unlinked |-> 0, extractor_calls |-> 0,
      temp |-> NoPath, read |-> <<>>, faults |-> {} ]

Holding == {"created", "written", "cleanup", "hung"}

\* files in ./temp that no running invocation will unlink any more
Orphans == DOMAIN fs \ { loc[r].temp : r \in { q \in Requests : pc[q] \in Holding } }

(***************************************************************************)
(* POST /extract, one action per step of extract_text                      *)
(***************************************************************************)
\* return jsonify(...): the handler's frame, and its locals, are gone
Respond(r, body) ==
    /\ resp' = [resp EXCEPT ![r] = body]
    /\ loc' = [loc EXCEPT ![r] = NoLocals]
    /\ pc' = [pc EXCEPT ![r] = "done"]

\* lines 105-146: the request arrives, the three checks, then the filename is
\* sanitized and the content read into memory; a fault there reaches the
\* outer except
Receive(r) ==
    /\ pc[r] = "idle"
    /\ \E u \in Uploads, fault \in BOOLEAN :
         /\ req' = [req EXCEPT ![r] = u]
         /\ IF ~u.has_file
            THEN /\ ~fault
                 /\ Respond(r, NoFileProvided)
                 /\ UNCHANGED trace
            ELSE IF u.filename = <<>>
            THEN /\ ~fault
                 /\ Respond(r, NoFileSelected)
                 /\ UNCHANGED trace
            ELSE IF ~allowed_file(u.filename)
            THEN /\ ~fault
                 /\ Respond(r, UnsupportedFormat(u.filename))
                 /\ UNCHANGED trace
            ELSE IF fault
            THEN /\ Respond(r, UnexpectedError(ReadFault))
                 /\ trace' = [trace EXCEPT ![r].passed_check = TRUE,
                                           ![r].faults = {"read"}]
            ELSE /\ loc' = [loc EXCEPT ![r] =
                      [NoLocals EXCEPT
                         !.filename = secure_filename(u.filename, os_name),
                         !.file_bytes = u.content,
                         !.file_info = file_info(secure_filename(u.filename, os_name),
                                                 u.content)]]
                 /\ trace' = [trace EXCEPT ![r].passed_check = TRUE]
                 /\ pc' = [pc EXCEPT ![r] = "prepared"]
                 /\ UNCHANGED resp
    /\ UNCHANGED <<os_name, fs>>
    /\ UNCHANGED cvars

\* lines 150-152: the suffix is computed and the temporary file created, empty;
\* a fault here is outside the try/finally and goes to the inner except
CreateTemp(r) ==
    /\ pc[r] = "prepared"
    /\ LET extension == temp_extension(loc[r].filename)
       IN  \E p \in FreshPaths(fs, extension), fault \in BOOLEAN :
             IF fault
             THEN /\ Respond(r, ExtractionFailed(loc[r].filename, CreateFault(p)))
                  /\ trace' = [trace EXCEPT ![r].faults = @ \cup {"create"}]
                  /\ UNCHANGED fs
             ELSE /\ fs' = [q \in DOMAIN fs \cup {p} |-> IF q = p THEN <<>> ELSE fs[q]]
                  /\ loc' = [loc EXCEPT ![r].extension = extension, ![r].temp = p]
                  /\ trace' = [trace EXCEPT ![r].created = @ + 1, ![r].temp = p]
                  /\ pc' = [pc EXCEPT ![r] = "created"]
                  /\ UNCHANGED resp
    /\ UNCHANGED <<os_name, req>>
    /\ UNCHANGED cvars

\* lines 154-156: write, flush, close; a fault leaves for the finally block
WriteTemp(r) ==
    /\ pc[r] = "created"
    /\ \E fault \in BOOLEAN :
         IF fault
         THEN /\ loc' = [loc EXCEPT ![r].exc = WriteFault]
              /\ trace' = [trace EXCEPT ![r].faults = @ \cup {"write"}]
              /\ pc' = [pc EXCEPT ![r] = "cleanup"]
              /\ UNCHANGED fs
         ELSE /\ fs' = [fs EXCEPT ![loc[r].temp] = loc[r].file_bytes]
              /\ pc' = [pc EXCEPT ![r] = "written"]
              /\ UNCHANGED <<loc, trace>>
    /\ UNCHANGED <<os_name, req, resp>>
    /\ UNCHANGED cvars

\* line 157: textract.process(temp.name, extension=extension) returns.  The
\* extractor is an external library: what it returns is a function of the bytes
\* it finds at temp.name, here those bytes themselves, as bytes or already as str
ExtractorReturns(r) ==
    /\ pc[r] = "written"
    /\ loc[r].temp \in DOMAIN fs
    /\ \E is_bytes \in BOOLEAN :
         /\ is_bytes \/ Utf8Valid(fs[loc[r].temp])
         /\ loc' = [loc EXCEPT ![r].extracted =
                      [is_bytes |-> is_bytes,
                       data |-> IF is_bytes THEN fs[loc[r].temp]
                                ELSE Utf8Decode(fs[loc[r].temp])]]
    /\ trace' = [trace EXCEPT ![r].extractor_calls = @ + 1, ![r].read = fs[loc[r].temp]]
    /\ pc' = [pc EXCEPT ![r] = "cleanup"]
    /\ UNCHANGED <<os_name, fs, req, resp>>
    /\ UNCHANGED cvars

\* line 157: textract.process raises
ExtractorRaises(r) ==
    /\ pc[r] = "written"
    /\ \E e \in (IF loc[r].temp \in DOMAIN fs THEN ExtractorFaults(loc[r].temp)
                 ELSE {MissingFile(loc[r].temp)}) :
         loc' = [loc EXCEPT ![r].exc = e]
    /\ trace' = [trace EXCEPT ![r].extractor_calls = @ + 1,
                              ![r].read = IF loc[r].temp \in DOMAIN fs
                                          THEN fs[loc[r].temp] ELSE <<>>,
                              ![r].faults = @ \cup {"extractor"}]
    /\ pc' = [pc EXCEPT ![r] = "cleanup"]
    /\ UNCHANGED <<os_name, fs, req, resp>>
    /\ UNCHANGED cvars

\* line 157: textract.process never returns; the call has no timeout
ExtractorHangs(r) ==
    /\ pc[r] = "written"
    /\ trace' = [trace EXCEPT ![r].extractor_calls = @ + 1]
    /\ pc' = [pc EXCEPT ![r] = "hung"]
    /\ UNCHANGED <<os_name, fs, req, loc, resp>>
    /\ UNCHANGED cvars

\* lines 158-186: the finally block, where os.unlink removes the file, or raises
\* and its exception replaces the pending one; then the decoding and the
\* success body, or the inner except
UnlinkAndFinish(r) ==
    /\ pc[r] = "cleanup"
    /\ \E fault \in BOOLEAN :
         IF loc[r].temp \notin DOMAIN fs \/ fault
         THEN /\ loc[r].temp \in DOMAIN fs => Cardinality(Orphans) < MaxLeaked
              /\ Respond(r, ExtractionOutcome([loc[r] EXCEPT !.exc = UnlinkFault(loc[r].temp)]))
              /\ trace' = [trace EXCEPT ![r].faults = @ \cup {"unlink"}]
              /\ UNCHANGED fs
         ELSE /\ fs' = [q \in DOMAIN fs \ {loc[r].temp} |-> fs[q]]
              /\ Respond(r, ExtractionOutcome(loc[r]))
              /\ trace' = [trace EXCEPT
                    ![r].unlinked = @ + 1,
                    ![r].faults = IF loc[r].exc = NoExc /\ loc[r].extracted.is_bytes
                                     /\ ~Utf8Valid(loc[r].extracted.data)
                                  THEN @ \cup {"decode"} ELSE @]
    /\ UNCHANGED <<os_name, req>>
    /\ UNCHANGED cvars

\* the response has been sent; the worker takes the next request
Complete(r) ==
    /\ pc[r] = "done"
    /\ pc' = [pc EXCEPT ![r] = "idle"]
    /\ req' = [req EXCEPT ![r] = [has_file |-> FALSE, filename |-> <<>>, content |-> <<>>]]
    /\ resp' = [resp EXCEPT ![r] = NoResponse]
    /\ trace' = [trace EXCEPT ![r] = NoTrace]
    /\ UNCHANGED <<os_name, fs, loc>>
    /\ UNCHANGED cvars

(***************************************************************************)
(* Classifier, sanitizer and catalog on their own                          *)
(***************************************************************************)
StemChars == {"a", "Z", ".", "_", " ", "/", "é", "日"}

\* what follows the stem: supported extensions in several spellings,
\* unsupported ones, several segments, unsafe characters
Tails ==
    { <<>>, <<".">>,
      <<".","z","i","p">>, <<".","e","x","e">>, <<".","p","d">>,
      <<".","P","D","F">>, <<".","P","d","f">>, <<".","J","p","E","g">>,
      <<".","H","T","M">>, <<".","t","x","t",".">>, <<".","p","d","f"," ">>,
      <<".","p","d","f","日">>, <<".","p","/","d","f">>, <<".","p","d","é">>,
      <<".","p","d","f",".","z","i","p">>, <<".","z","i","p",".","p","d","f">>,
      <<".","t","a","r",".","G","I","F">>, <<"p","d","f">>, <<"c","o","n",".","t","x","t">> }
    \cup { <<".">> \o e : e \in ALLOWED_EXTENSIONS }

ProbeFilenames == { s \o t : s \in SeqsUpTo(StemChars, MaxStemLen), t \in Tails }

NoResult == [accepted |-> FALSE, secured |-> <<>>, extension |-> <<>>]

\* allowed_file(file.filename), line 125
ClassifyFile ==
    /\ cstage = "new"
    /\ cres' = [cres EXCEPT !.accepted = allowed_file(cfile)]
    /\ cstage' = "classified"
    /\ UNCHANGED <<cfile, catalog, os_name>>
    /\ UNCHANGED hvars

\* lines 134 and 150-151 on an accepted filename
SanitizeFile ==
    /\ cstage = "classified"
    /\ cres.accepted
    /\ cres' = [cres EXCEPT !.secured = secure_filename(cfile, os_name),
                            !.extension = temp_extension(secure_filename(cfile, os_name))]
    /\ cstage' = "sanitized"
    /\ UNCHANGED <<cfile, catalog, os_name>>
    /\ UNCHANGED hvars

\* GET /formats
GetFormats ==
    /\ catalog # supported_formats
    /\ catalog' = supported_formats
    /\ UNCHANGED <<cfile, cstage, cres, os_name>>
    /\ UNCHANGED hvars

(***************************************************************************)
(* Specifications                                                          *)
(***************************************************************************)
NoCatalog == [total_formats |-> 0]

InitHandlers ==
    /\ fs = << >>
    /\ pc = [r \in Requests |-> "idle"]
    /\ req = [r \in Requests |-> [has_file |-> FALSE, filename |-> <<>>, content |-> <<>>]]
    /\ loc = [r \in Requests |-> NoLocals]
    /\ resp = [r \in Requests |-> NoResponse]
    /\ trace = [r \in Requests |-> NoTrace]

\* the uploads of Uploads are sanitized alike on every platform
Init ==
    /\ os_name = "posix"
    /\ InitHandlers
    /\ cfile = <<>>
    /\ cstage = "off"
    /\ cres = NoResult
    /\ catalog = NoCatalog

Next ==
    \E r \in Requests :
       \/ Receive(r)
       \/ CreateTemp(r)
       \/ WriteTemp(r)
       \/ ExtractorReturns(r)
       \/ ExtractorRaises(r)
       \/ ExtractorHangs(r)
       \/ UnlinkAndFinish(r)
       \/ Complete(r)

Spec == Init /\ [][Next]_vars

\* every step of a running handler is eventually taken; only the arrival of a
\* request is left to the environment
Step(r) ==
    \/ CreateTemp(r) \/ WriteTemp(r)
    \/ ExtractorReturns(r) \/ ExtractorRaises(r) \/ ExtractorHangs(r)
    \/ UnlinkAndFinish(r)

FairSpec == Spec /\ \A r \in Requests : WF_vars(Step(r))

InitClassify ==
    /\ os_name \in {"posix", "nt"}
    /\ InitHandlers
    /\ cfile \in ProbeFilenames
    /\ cstage = "new"
    /\ cres = NoResult
    /\ catalog = NoCatalog

NextClassify == ClassifyFile \/ SanitizeFile \/ GetFormats

ClassifySpec == InitClassify /\ [][NextClassify]_vars

(***************************************************************************)
(* Properties                                                              *)
(***************************************************************************)
ErrorOf(body) == IF "error" \in DOMAIN body THEN body.error ELSE "none"

StatusOf(body) == IF "status" \in DOMAIN body THEN body.status ELSE "none"

FinalSegment(s) == rsplit(s)[Len(rsplit(s))]

\* the filename has no '.' or its lowercased final segment is not supported
Unsupported(f) ==
    \/ "." \notin Range(f)
    \/ lower(FinalSegment(f)) \notin ALLOWED_EXTENSIONS

RejectedAsUnsupported(r) ==
    /\ resp[r].http = 400
    /\ StatusOf(resp[r]) = "error"
    /\ ErrorOf(resp[r]) = "Unsupported file format"
    /\ trace[r].created = 0
    /\ trace[r].extractor_calls = 0
    /\ trace[r].temp = NoPath

\* C1 as stated: every request whose filename has no '.' or an unsupported final
\* extension is answered 'Unsupported file format', 400, with no transient file
\* and no extractor call.
C1_Original ==
    \A r \in Requests :
        pc[r] = "done" /\ req[r].has_file /\ Unsupported(req[r].filename)
            => RejectedAsUnsupported(r)

\* C1 amended: every request whose filename is not empty and has no '.' or an
\* unsupported final extension is answered 'Unsupported file format', 400, with
\* no transient file and no extractor call.
C1_UnsupportedRejected ==
    \A r \in Requests :
        pc[r] = "done" /\ req[r].has_file /\ req[r].filename # <<>>
        /\ Unsupported(req[r].filename)
            => RejectedAsUnsupported(r)

C1_Witness ==
    \E r \in Requests :
        /\ pc[r] = "done" /\ req[r].has_file
        /\ "." \in Range(req[r].filename)
        /\ Unsupported(req[r].filename)
        /\ ErrorOf(resp[r]) = "Unsupported file format"

ErrorKindsOfTheHandler ==
    { "No file provided", "No file selected", "Unsupported file format",
      "Text extraction failed", "Unexpected error" }

\* C2: a request whose content is zero bytes long is answered with the
\* EmptyInput failure, a kind of its own, and HTTP 400, whatever its filename,
\* and the extractor is not invoked.
C2_EmptyInput ==
    \A r \in Requests :
        pc[r] = "done" /\ req[r].has_file /\ req[r].content = <<>>
            => /\ resp[r].http = 400
               /\ StatusOf(resp[r]) = "error"
               /\ ErrorOf(resp[r]) \notin ErrorKindsOfTheHandler
               /\ trace[r].extractor_calls = 0

\* C3: an invocation that created a transient file has unlinked it exactly once
\* when its response is returned, and no transient file remains once every
\* request has completed.
C3_ReleasedOnce ==
    /\ \A r \in Requests :
           pc[r] = "done" /\ trace[r].created > 0
               => trace[r].unlinked = 1 /\ trace[r].temp \notin DOMAIN fs
    /\ (\A r \in Requests : pc[r] \in {"idle", "done"}) => DOMAIN fs = {}

\* C4: requests running concurrently hold distinct transient files; a file held
\* by a request exists until that request unlinks it and, once written, stores
\* that request's content; the extractor reads the request's own content; a
\* success response carries the text and file_info of the request's own upload.
C4_Isolation ==
    \A r \in Requests :
        /\ pc[r] \in Holding =>
              /\ loc[r].temp \in DOMAIN fs
              /\ \A q \in Requests \ {r} : pc[q] \in Holding => loc[q].temp # loc[r].temp
        /\ pc[r] \in {"written", "hung"} => fs[loc[r].temp] = req[r].content
        /\ trace[r].extractor_calls > 0 /\ pc[r] # "hung" => trace[r].read = req[r].content
        /\ pc[r] = "done" /\ StatusOf(resp[r]) = "success" =>
              /\ trace[r].unlinked = 1
              /\ resp[r].extracted_text = strip(Utf8Decode(req[r].content), Whitespace)
              /\ resp[r].file_info.size = Len(req[r].content)
              /\ resp[r].file_info.size_mb = size_mb(Len(req[r].content))
              /\ resp[r].file_info.mime_type
                    = guess_type(secure_filename(req[r].filename, os_name))

C4_Witness ==
    \E r1, r2 \in Requests :
        /\ r1 # r2
        /\ req[r1].filename = req[r2].filename
        /\ req[r1].content # req[r2].content
        /\ pc[r1] = "written"
        /\ pc[r2] = "done" /\ StatusOf(resp[r2]) = "success"
        /\ trace[r2].created = 1

\* C5: every invocation that passed the checks eventually returns a response.
C5_EventuallyResponds ==
    \A r \in Requests : (pc[r] = "prepared") ~> (pc[r] = "done")

\* C6: a request has a response exactly when it is done, and that response is
\* either a success (200, with text, no error) or a failure (error and message,
\* no text); when a fault was raised after the format check passed, it is a
\* failure with status 'error' and HTTP 500.
C6_FaultsCaught ==
    \A r \in Requests :
        /\ pc[r] # "done" => resp[r] = NoResponse
        /\ pc[r] = "done" =>
              /\ StatusOf(resp[r]) \in {"success", "error"}
              /\ StatusOf(resp[r]) = "success" =>
                    /\ resp[r].http = 200
                    /\ "extracted_text" \in DOMAIN resp[r]
                    /\ "error" \notin DOMAIN resp[r]
              /\ StatusOf(resp[r]) = "error" =>
                    /\ resp[r].http \in {400, 500}
                    /\ {"error", "message"} \subseteq DOMAIN resp[r]
                    /\ "extracted_text" \notin DOMAIN resp[r]
              /\ trace[r].passed_check /\ trace[r].faults # {} =>
                    StatusOf(resp[r]) = "error" /\ resp[r].http = 500

C6_Witness ==
    \E r \in Requests :
        /\ pc[r] = "done"
        /\ trace[r].faults \cap {"unlink", "decode"} # {}
        /\ resp[r].http = 500

FamilyLists(c) == { c.supported_formats[f] : f \in DOMAIN c.supported_formats }

CatalogExtensions(c) == UNION { Range(l) : l \in FamilyLists(c) }

RECURSIVE SumOfLengths(_)
SumOfLengths(lists) ==
    IF lists = {} THEN 0
    ELSE LET l == CHOOSE x \in lists : TRUE
         IN  Len(l) + SumOfLengths(lists \ {l})

\* C7: once GET /formats has answered, a filename with an extension is accepted
\* by allowed_file exactly when its (lowercased final) extension is listed in a
\* family of the catalog; every listed extension is accepted and every supported
\* one listed; no extension is listed twice; total_formats is the number listed.
C7_CatalogAgrees ==
    catalog # NoCatalog =>
        /\ cstage # "new" /\ "." \in Range(cfile) =>
              (cres.accepted <=> lower(FinalSegment(cfile)) \in CatalogExtensions(catalog))
        /\ \A e \in CatalogExtensions(catalog) : allowed_file(<<"x", ".">> \o e)
        /\ ALLOWED_EXTENSIONS \subseteq CatalogExtensions(catalog)
        /\ \A f, g \in DOMAIN catalog.supported_formats :
              \A i \in 1..Len(catalog.supported_formats[f]),
                 j \in 1..Len(catalog.supported_formats[g]) :
                 catalog.supported_formats[f][i] = catalog.supported_formats[g][j]
                     => f = g /\ i = j
        /\ catalog.total_formats = SumOfLengths(FamilyLists(catalog))
        /\ catalog.total_formats = Cardinality(CatalogExtensions(catalog))

C7_Witness ==
    /\ catalog # NoCatalog
    /\ cstage = "classified"
    /\ cres.accepted
    /\ lower(FinalSegment(cfile)) # FinalSegment(cfile)

\* C8: a request whose only fault is undecodable extractor output is answered
\* with an error whose kind differs from the kind answered to a request whose
\* only fault is raised by the extractor.
C8_EncodingErrorDistinct ==
    \A r1, r2 \in Requests :
        (/\ pc[r1] = "done" /\ trace[r1].faults = {"decode"}
         /\ pc[r2] = "done" /\ trace[r2].faults = {"extractor"})
            => (/\ StatusOf(resp[r1]) = "error"
                /\ ErrorOf(resp[r1]) # ErrorOf(resp[r2]))

\* C9: the message of a failure response contains neither the transient file's
\* path nor text produced inside the extractor or the decoder.
C9_NoInternalText ==
    \A r \in Requests :
        pc[r] = "done" /\ StatusOf(resp[r]) = "error" =>
            \A i \in 1..Len(resp[r].message) :
                resp[r].message[i].kind \notin {"path", "diag"}

\* C10: for an accepted filename, the suffix computed from the sanitized
\* filename is '.' followed by the lowercased final segment of the original
\* filename, which is a supported extension.
C10_SuffixMatches ==
    cstage = "sanitized" =>
        /\ cres.extension = <<".">> \o lower(FinalSegment(cfile))
        /\ SubSeq(cres.extension, 2, Len(cres.extension)) \in ALLOWED_EXTENSIONS

C10_Witness ==
    /\ cstage = "sanitized"
    /\ cres.secured # cfile
    /\ lower(FinalSegment(cfile)) # FinalSegment(cfile)
    /\ rsplit(cres.secured) # rsplit(cfile)

====
